---- MODULE Spec2Model ----
(***************************************************************************)
(* Hospital-at-Home optimisation model (model.py), its parameter set       *)
(* (config.py) and the driver that solves it and persists the solution     *)
(* (main.py).  The external solver is modelled by its contract: optimize() *)
(* ends with any point that satisfies every constraint of the assembled    *)
(* program (an incumbent), with a proof of infeasibility, or with the time *)
(* limit and no incumbent.                                                 *)
(*                                                                         *)
(* Real-valued quantities are kept in fixed point:                         *)
(*   distances        in 1/DistScale km                                    *)
(*   square roots     in 1/SqrtScale                                       *)
(*   routing cost     in 1/VrpScale km                                     *)
(*   money            in 1/MoneyScale dollars                              *)
(* Continuous decision variables range over finite samples of their        *)
(* domains that contain every value the constraints can force.             *)
(***************************************************************************)
EXTENDS Integers, FiniteSets, Sequences, TLC

VARIABLES pc, cfg, matrix_files, distance_matrix, model, ret, output, solution_file

vars == <<pc, cfg, matrix_files, distance_matrix, model, ret, output, solution_file>>

\* Python's None and a present value, as the empty and the one-element set
None == {}

Some(v) == {v}

Get(o) == CHOOSE e \in o : TRUE

(***************************************************************************)
(* Bounds of the model                                                     *)
(***************************************************************************)
\* patients of a generated parameter set (NUM_PATIENTS_TO_GENERATE)
NumP == 2
\* bundles x depots x days of a generated parameter set
MaxCells == 2
\* sample width of the unforced continuous/integer variables: stock kept at
\* a depot, vehicles beyond the required ones, free average distance (km)
MaxSlack == 1
\* days in hospital of every patient (L_hosp): with 1, a day of home care
\* with its supplies costs more than the hospital stay
HospitalStay == 1
\* distance (km) the provider reports between two distinct locations
ROUTE_KM == 5

(***************************************************************************)
(* Fixed-point scales                                                      *)
(***************************************************************************)
DistScale == 3 * 4
SqrtScale == 2 * 5
TenthScale == 2 * 5
VrpScale == DistScale * SqrtScale * TenthScale
MoneyScale == VrpScale * TenthScale

(***************************************************************************)
(* config.py, section 2: cost and solver parameters                        *)
(***************************************************************************)
COST_HOSPITAL_PER_DAY == 300
COST_NURSE_VISIT_PER_DAY == 250
COST_INVENTORY_PER_UNIT_DAY == 3
\* 2.2 per km, in tenths
COST_DELIVERY_PER_KM == 22
NURSE_CAPACITY_PATIENTS_PER_SHIFT == 4
\* 1.2, in tenths
VRP_BETA_COEFFICIENT == 12
GUROBI_BIG_M == 1000000
\* units of a demanded bundle per day
DEMAND_UNITS == 1
\* value written by the distance provider for a failed element
FAILED_ELEMENT == -1

c_Hosp == COST_HOSPITAL_PER_DAY
c_N == COST_NURSE_VISIT_PER_DAY
c_V == COST_INVENTORY_PER_UNIT_DAY
c_D == COST_DELIVERY_PER_KM
gamma == NURSE_CAPACITY_PATIENTS_PER_SHIFT
beta == VRP_BETA_COEFFICIENT

\* c_P = {s: 50.0 + s * 10.0 for s in S}
c_P(s) == 50 + s * 10

(***************************************************************************)
(* Helpers                                                                 *)
(***************************************************************************)
RECURSIVE SumSet(_, _)
SumSet(f, S) ==
    IF S = {} THEN 0
    ELSE LET k == CHOOSE e \in S : TRUE IN f[k] + SumSet(f, S \ {k})

\* gp.quicksum over the terms of a generator expression
quicksum(f) == SumSet(f, DOMAIN f)

Range(f) == {f[k] : k \in DOMAIN f}

SetMax(S) == CHOOSE m \in S : \A e \in S : e <= m

SetMin(S) == CHOOSE m \in S : \A e \in S : m <= e

ISqrt(n) == CHOOSE r \in 0..n : r * r <= n /\ (r + 1) * (r + 1) > n

\* n ** 0.5 in 1/SqrtScale
SqrtFixed(n) == ISqrt(n * SqrtScale * SqrtScale)

(***************************************************************************)
(* config.py, section 3: index sets and patient data of a parameter set    *)
(***************************************************************************)
\* demand = defaultdict(int); demand[s, i, t_day] = 1 for the demanded
\* bundles of every eligible patient and every day of the home stay
DemandTable(S, E, L_home, bundleOf) ==
    [k \in {<<s, i, t>> \in S \X E \X (0..(SetMax(Range(L_home) \cup {0}) - 1)) :
                s = bundleOf[i] /\ t < L_home[i]} |-> DEMAND_UNITS]

\* the parameter set: P, E, H, S, J, T, B, L_hosp, L_home, demand
Config(name, num_P, E, num_S, num_J, horizon, B, losHosp, losHome) ==
    LET P == 0..(num_P - 1)
        S == 0..(num_S - 1)
        L_home == [i \in P |-> IF i \in E THEN losHome ELSE 0]
    IN  [SCENARIO_NAME |-> name,
         num_P |-> num_P,
         num_J |-> num_J,
         P |-> P,
         E |-> E,
         H |-> P \ E,
         S |-> S,
         J |-> 0..(num_J - 1),
         T |-> 0..(horizon - 1),
         B |-> B,
         L_hosp |-> [i \in P |-> losHosp],
         L_home |-> L_home,
         demand |-> DemandTable(S, E, L_home, [i \in E |-> i % num_S])]

\* shapes (bundles, depots, days) of the generated parameter sets
Shapes ==
    {sh \in (1..MaxCells) \X (1..MaxCells) \X (1..MaxCells) :
        sh[1] * sh[2] * sh[3] <= MaxCells}

\* every partition of P into E and H, every bed capacity 0..|P|, every home
\* stay within the horizon
GeneratedConfigs ==
    UNION {
        {Config("generated", NumP, E, sh[1], sh[2], sh[3], B, HospitalStay, lo) :
            E \in SUBSET (0..(NumP - 1)), B \in 0..NumP, lo \in 0..sh[3]} :
        sh \in Shapes}

\* the literal scenario: P={0,1,2}, H={0}, bedCapacity=1, one depot, one
\* bundle, one day, one unit of demand for each of the patients 1 and 2
LiteralScenario == Config("literal", 3, {1, 2}, 1, 1, 1, 1, HospitalStay, 1)

\* the infeasibility scenario: H={0,1}, bedCapacity=0
InfeasibilityScenario == Config("infeasible", 2, {}, 1, 1, 1, 0, HospitalStay, 0)

Configs ==
    GeneratedConfigs \cup {LiteralScenario, InfeasibilityScenario}

\* number of locations of the unified ordering [depots..., patients...]
n_points(c) == c.num_J + c.num_P

\* the matrix of the provider: every element OK except those in failed
ProviderMatrix(c, failed) ==
    [rc \in (0..(n_points(c) - 1)) \X (0..(n_points(c) - 1)) |->
        IF rc \in failed THEN FAILED_ELEMENT * DistScale
        ELSE IF rc[1] = rc[2] THEN 0 ELSE ROUTE_KM * DistScale]

\* matrices a run may load or compute: no failed element, or one failed
\* element in the depot-row/patient-column block
DistanceMatrices(c) ==
    {ProviderMatrix(c, {})}
        \cup {ProviderMatrix(c, {<<j, c.num_J + i>>}) : j \in c.J, i \in c.P}

(***************************************************************************)
(* model.py, build_and_solve_model: decision variables                     *)
(***************************************************************************)
\* index keys of m.addVars(...)
x_keys(c) == c.P
y_keys(c) == c.S \X c.J \X c.T
z_keys(c) == c.S \X c.E \X c.J \X c.T
p_keys(c) == c.S \X c.J \X c.T
a_keys(c) == c.E \X c.J \X c.T
jt_keys(c) == c.J \X c.T

\* config.demand.get((s, i, t), 0)
demand_get(c, s, i, t) ==
    IF <<s, i, t>> \in DOMAIN c.demand THEN c.demand[<<s, i, t>>] ELSE 0

(***************************************************************************)
(* model.py, build_and_solve_model: objective terms as linear expressions  *)
(* (a constant and a coefficient for each variable)                        *)
(***************************************************************************)
LinAdd(e1, e2) ==
    [const |-> e1.const + e2.const,
     coef |-> [id \in (DOMAIN e1.coef) \cup (DOMAIN e2.coef) |->
                 (IF id \in DOMAIN e1.coef THEN e1.coef[id] ELSE 0)
               + (IF id \in DOMAIN e2.coef THEN e2.coef[id] ELSE 0)]]

\* LinExpr.getValue() at the point v
getValue(e, v) ==
    e.const + quicksum([id \in DOMAIN e.coef |-> e.coef[id] * v[id[1]][id[2]]])

in_hosp_cost(c) ==
    [const |-> quicksum([i \in c.P |-> c_Hosp * c.L_hosp[i] * MoneyScale]),
     coef |-> [id \in {<<"x", i>> : i \in c.P} |->
                 0 - c_Hosp * c.L_hosp[id[2]] * MoneyScale]]

nurse_cost(c) ==
    [const |-> 0,
     coef |-> [id \in {<<"x", i>> : i \in c.E} |->
                 c_N * c.L_home[id[2]] * MoneyScale]]

procure_cost(c) ==
    [const |-> 0,
     coef |-> [id \in {<<"p", k>> : k \in p_keys(c)} |->
                 c_P(id[2][1]) * MoneyScale]]

holding_cost(c) ==
    [const |-> 0,
     coef |-> [id \in {<<"y", k>> : k \in y_keys(c)} |-> c_V * MoneyScale]]

transport_cost(c) ==
    [const |-> 0,
     coef |-> [id \in {<<"vrp_jt", k>> : k \in jt_keys(c)} |-> c_D]]

\* the holding cost left out of the objective
setObjective_no_holding(c) ==
    LinAdd(LinAdd(LinAdd(in_hosp_cost(c), nurse_cost(c)), procure_cost(c)),
           transport_cost(c))

\* m.setObjective(in_hosp_cost + nurse_cost + procure_cost + holding_cost
\*                + transport_cost, GRB.MINIMIZE)
setObjective(c) ==
    LinAdd(LinAdd(LinAdd(LinAdd(in_hosp_cost(c), nurse_cost(c)),
                         procure_cost(c)), holding_cost(c)), transport_cost(c))

(***************************************************************************)
(* model.py, build_and_solve_model: constraints                            *)
(***************************************************************************)
\* the constraint written over the eligible patients
ineligibility_E(c, x) == \A i \in c.E : x[i] = 0

\* x[i] == 0 for i in config.H
ineligibility(c, x) == \A i \in c.H : x[i] = 0

\* the inequality reversed
bed_capacity_ge(c, x) == quicksum([i \in c.P |-> 1 - x[i]]) >= c.B

\* the beds counted over the eligible patients only
bed_capacity_E(c, x) == quicksum([i \in c.E |-> 1 - x[i]]) <= c.B

\* quicksum(1 - x[i] for i in config.P) <= config.B
bed_capacity(c, x) == quicksum([i \in c.P |-> 1 - x[i]]) <= c.B

\* deliveries bounded by the demand instead of equal to it
demand_fulfillment_le(c, x, z) ==
    \A s \in c.S, i \in c.E, t \in c.T :
        quicksum([j \in c.J |-> z[<<s, i, j, t>>]]) <= demand_get(c, s, i, t) * x[i]

\* quicksum(z[s,i,j,t] for j in J) == demand.get((s,i,t), 0) * x[i]
demand_fulfillment(c, x, z) ==
    \A s \in c.S, i \in c.E, t \in c.T :
        quicksum([j \in c.J |-> z[<<s, i, j, t>>]]) = demand_get(c, s, i, t) * x[i]

\* the balance of the last day left out (for t in config.T[:-2])
inventory_balance_short(c, y, p, z) ==
    \A s \in c.S, j \in c.J :
        LET initial_inventory == 0 IN
        /\ initial_inventory + p[<<s, j, 0>>]
              - quicksum([i \in c.E |-> z[<<s, i, j, 0>>]]) = y[<<s, j, 0>>]
        /\ \A t \in c.T \ {SetMax(c.T), SetMax(c.T) - 1} :
              y[<<s, j, t>>] + p[<<s, j, t + 1>>]
                 - quicksum([i \in c.E |-> z[<<s, i, j, t + 1>>]]) = y[<<s, j, t + 1>>]

\* initial_inventory + p[s,j,0] - quicksum(z[s,i,j,0]) == y[s,j,0] and, for
\* t in config.T[:-1], y[s,j,t] + p[s,j,t+1] - quicksum(z[s,i,j,t+1]) == y[s,j,t+1]
inventory_balance(c, y, p, z) ==
    \A s \in c.S, j \in c.J :
        LET initial_inventory == 0 IN
        /\ initial_inventory + p[<<s, j, 0>>]
              - quicksum([i \in c.E |-> z[<<s, i, j, 0>>]]) = y[<<s, j, 0>>]
        /\ \A t \in c.T \ {SetMax(c.T)} :
              y[<<s, j, t>>] + p[<<s, j, t + 1>>]
                 - quicksum([i \in c.E |-> z[<<s, i, j, t + 1>>]]) = y[<<s, j, t + 1>>]

\* quicksum(z[s,i,j,t] for s in S) <= GUROBI_BIG_M * a[i,j,t]
link_z_a(c, z, a) ==
    \A i \in c.E, j \in c.J, t \in c.T :
        quicksum([s \in c.S |-> z[<<s, i, j, t>>]]) <= GUROBI_BIG_M * a[<<i, j, t>>]

\* n_jt[j,t] == quicksum(a[i,j,t] for i in E)
count_deliveries(c, n_jt, a) ==
    \A j \in c.J, t \in c.T :
        n_jt[<<j, t>>] = quicksum([i \in c.E |-> a[<<i, j, t>>]])

\* the capacity inequality turned around
calc_vehicles_le(num_vehicles, n) == num_vehicles * gamma <= n

\* num_vehicles * config.gamma >= n_jt[j,t]
calc_vehicles(num_vehicles, n) == num_vehicles * gamma >= n

\* total_one_way_distance =
\*     quicksum(a[i,j,t] * distance_matrix[j, config.num_J + i] for i in E)
total_one_way_distance(c, dm, a, j, t) ==
    quicksum([i \in c.E |-> a[<<i, j, t>>] * dm[<<j, c.num_J + i>>]])

\* avg_dist_jt * n_jt[j,t] == total_one_way_distance
avg_dist_calc(c, dm, avg_dist, n, a, j, t) ==
    avg_dist * n = total_one_way_distance(c, dm, a, j, t)

\* the exponent 0 instead of 0.5: n ** 0 = 1
pow_zero(n, sqrt_n) == sqrt_n = SqrtScale

\* addGenConstrPow(n_jt[j,t], sqrt_n, 0.5)
pow_sqrt_n(n, sqrt_n) == sqrt_n = SqrtFixed(n)

\* spoke_cost = num_vehicles * 2 * avg_dist_jt, in 1/VrpScale km
spoke_cost(num_vehicles, avg_dist) ==
    num_vehicles * 2 * avg_dist * (VrpScale \div DistScale)

\* tour_cost = config.beta * sqrt_n, in 1/VrpScale km
tour_cost(sqrt_n) == beta * sqrt_n * (VrpScale \div (TenthScale * SqrtScale))

\* vrp_jt[j,t] == spoke_cost + tour_cost
vrp_cost_def(vrp, num_vehicles, avg_dist, sqrt_n) ==
    vrp = spoke_cost(num_vehicles, avg_dist) + tour_cost(sqrt_n)

(***************************************************************************)
(* model.py, m.optimize(): the points the solver searches.  Every variable *)
(* ranges over its declared type and bounds (BINARY, INTEGER, lb=0); the   *)
(* continuous ones over the finite samples below.                          *)
(***************************************************************************)
CeilDiv(n, d) == (n + d - 1) \div d

MaxDemand(c) == SetMax(Range(c.demand) \cup {0})

\* stock levels sampled at a depot
y_samples(c) == 0..MaxSlack

\* procurement that covers every delivery of a day and the sampled stock
p_samples(c) == 0..(MaxSlack + Cardinality(c.E) * Cardinality(c.S) * MaxDemand(c))

z_samples(c) == 0..MaxDemand(c)

n_samples(c) == 0..Cardinality(c.E)

num_vehicles_samples(c) ==
    0..SetMax({MaxSlack, CeilDiv(Cardinality(c.E), gamma)})

\* the averages avg_dist * n = total can force, and the sampled free ones
avg_dist_samples(c, dm) ==
    {km * DistScale : km \in 0..MaxSlack}
        \cup {q \in 0..SetMax(Range(dm) \cup {0}) :
                \E A \in (SUBSET c.E) \ {{}}, j \in c.J :
                    q * Cardinality(A)
                        = quicksum([i \in A |-> dm[<<j, c.num_J + i>>]])}

sqrt_n_samples(c) == {SqrtFixed(k) : k \in n_samples(c)}

vrp_samples(c, dm) ==
    {spoke_cost(nv, g) + tour_cost(q) :
        nv \in num_vehicles_samples(c), g \in avg_dist_samples(c, dm),
        q \in sqrt_n_samples(c)}

\* the functions that pick, for every key, an element of the set at the key
DepProd(choices) ==
    {f \in [DOMAIN choices -> UNION Range(choices)] :
        \A k \in DOMAIN choices : f[k] \in choices[k]}

x_feasible(c) ==
    {x \in [x_keys(c) -> {0, 1}] : ineligibility(c, x) /\ bed_capacity(c, x)}

z_feasible(c, x) ==
    {z \in [z_keys(c) -> z_samples(c)] : demand_fulfillment(c, x, z)}

yp_feasible(c, z) ==
    {yp \in [y_keys(c) -> y_samples(c)] \X [p_keys(c) -> p_samples(c)] :
        inventory_balance(c, yp[1], yp[2], z)}

a_feasible(c, z) ==
    {a \in [a_keys(c) -> {0, 1}] : link_z_a(c, z, a)}

n_feasible(c, a) ==
    {n_jt \in [jt_keys(c) -> n_samples(c)] : count_deliveries(c, n_jt, a)}

\* the samples of the routing variables
Samples(c, dm) ==
    [num_vehicles |-> num_vehicles_samples(c),
     avg_dist |-> avg_dist_samples(c, dm),
     sqrt_n |-> sqrt_n_samples(c),
     vrp_jt |-> vrp_samples(c, dm)]

\* routing variables of one depot and day
routing_feasible(c, dm, smp, a, n, j, t) ==
    UNION {
        {[num_vehicles |-> r[1], avg_dist |-> r[2], sqrt_n |-> r[3], vrp_jt |-> w] :
            w \in {w \in smp.vrp_jt : vrp_cost_def(w, r[1], r[2], r[3])}} :
        r \in {r \in smp.num_vehicles \X smp.avg_dist \X smp.sqrt_n :
                  /\ calc_vehicles(r[1], n)
                  /\ avg_dist_calc(c, dm, r[2], n, a, j, t)
                  /\ pow_sqrt_n(n, r[3])}}

\* a point: the value of every variable of the program
Point(x, z, yp, a, n_jt, r) ==
    [x |-> x, y |-> yp[1], z |-> z, p |-> yp[2], a |-> a, n_jt |-> n_jt,
     vrp_jt |-> [k \in DOMAIN r |-> r[k].vrp_jt],
     num_vehicles |-> [k \in DOMAIN r |-> r[k].num_vehicles],
     avg_dist |-> [k \in DOMAIN r |-> r[k].avg_dist],
     sqrt_n |-> [k \in DOMAIN r |-> r[k].sqrt_n]]

\* the points that satisfy every constraint of the program
FeasibleSet(c, dm) ==
    LET smp == Samples(c, dm) IN
    UNION { UNION { UNION { UNION {
        {Point(x, z, yp, a, n_jt, r) :
            yp \in yp_feasible(c, z),
            r \in DepProd([k \in jt_keys(c) |->
                     routing_feasible(c, dm, smp, a, n_jt[k], k[1], k[2])])} :
        n_jt \in n_feasible(c, a)} :
        a \in a_feasible(c, z)} :
        z \in z_feasible(c, x)} :
        x \in x_feasible(c)}

(***************************************************************************)
(* model.py, lines 91-102: what build_and_solve_model returns              *)
(***************************************************************************)
\* cost_breakdown = {"In-Hospital": in_hosp_cost.getValue(), ...}
cost_breakdown(c, v) ==
    [cat \in {"In-Hospital", "Nurse Visits", "Procurement", "Inventory", "Transport"} |->
        CASE cat = "In-Hospital" -> getValue(in_hosp_cost(c), v)
          [] cat = "Nurse Visits" -> getValue(nurse_cost(c), v)
          [] cat = "Procurement" -> getValue(procure_cost(c), v)
          [] cat = "Inventory" -> getValue(holding_cost(c), v)
          [] cat = "Transport" -> getValue(transport_cost(c), v)]

\* the dictionary without the procurement variables
variables_dict_no_p(c) ==
    [g \in {"x", "y", "z", "a", "n_jt"} |->
        CASE g = "x" -> x_keys(c)
          [] g = "y" -> y_keys(c)
          [] g = "z" -> z_keys(c)
          [] g = "a" -> a_keys(c)
          [] g = "n_jt" -> jt_keys(c)]

\* variables = {'x': x, 'y': y, 'z': z, 'a': a, 'p': p, 'n_jt': n_jt}: the
\* variable handles of each group, by key
variables_dict(c) ==
    [g \in {"x", "y", "z", "a", "p", "n_jt"} |->
        CASE g = "x" -> x_keys(c)
          [] g = "y" -> y_keys(c)
          [] g = "z" -> z_keys(c)
          [] g = "a" -> a_keys(c)
          [] g = "p" -> p_keys(c)
          [] g = "n_jt" -> jt_keys(c)]

\* if m.SolCount > 0: return m, variables, cost_breakdown
\* else:              return None, None, None
solve_return(c, m) ==
    IF m.SolCount > 0
    THEN <<Some(m), Some(variables_dict(c)), Some(cost_breakdown(c, Get(m.X)))>>
    ELSE <<None, None, None>>

(***************************************************************************)
(* main.py, lines 53-68: the record written to the solution file           *)
(***************************************************************************)
\* solution_vars_values[key][k] = v.X
solution_vars_values(m, variables) ==
    [key \in DOMAIN variables |-> [k \in variables[key] |-> Get(m.X)[key][k]]]

solution_data(c, m, variables, cost_components) ==
    [total_cost |-> Get(m.objVal),
     variables |-> solution_vars_values(m, variables),
     cost_components |-> cost_components,
     config_scenario_name |-> c.SCENARIO_NAME,
     patient_count |-> c.num_P,
     bed_count |-> c.B]

(***************************************************************************)
(* State machine of one run of main()                                      *)
(***************************************************************************)
Init ==
    /\ pc = "start"
    /\ cfg \in Configs
    /\ matrix_files \in {None} \cup {Some(dm) : dm \in DistanceMatrices(cfg)}
    /\ distance_matrix = None
    /\ model = None
    /\ ret = <<None, None, None>>
    /\ output = "--- Step 1: Preparing Geographic Data ---"
    /\ solution_file = None

\* main.py 21-24: both matrix files exist and are loaded
LoadMatrices ==
    /\ pc = "start"
    /\ matrix_files # None
    /\ distance_matrix' = Get(matrix_files)
    /\ pc' = "prepared"
    /\ UNCHANGED <<cfg, matrix_files, model, ret, output, solution_file>>

\* main.py 25-37: the provider returns the matrices, which are saved
GenerateMatrices ==
    /\ pc = "start"
    /\ matrix_files = None
    /\ \E dm \in DistanceMatrices(cfg) :
          /\ distance_matrix' = dm
          /\ matrix_files' = Some(dm)
    /\ pc' = "prepared"
    /\ UNCHANGED <<cfg, model, ret, output, solution_file>>

\* main.py 25-40: the provider returns None, None
GenerateFails ==
    /\ pc = "start"
    /\ matrix_files = None
    /\ output' = "Failed to generate matrices from API. Exiting."
    /\ pc' = "exited"
    /\ UNCHANGED <<cfg, matrix_files, distance_matrix, model, ret, solution_file>>

\* model.py 10-87: the program handed to the solver; the coefficients of
\* the served indicators in the avg_dist_calc constraints are the entries
\* distance_matrix[j, num_J + i]
BuildModel ==
    /\ pc = "prepared"
    /\ model' = Some([name |-> "HaH_Model_V2_Quadratic",
                 avg_dist_coef |-> [k \in a_keys(cfg) |->
                                      distance_matrix[<<k[2], cfg.num_J + k[1]>>]],
                 Status |-> "LOADED",
                 SolCount |-> 0,
                 objVal |-> None,
                 X |-> None])
    /\ pc' = "built"
    /\ UNCHANGED <<cfg, matrix_files, distance_matrix, ret, output, solution_file>>

\* model.py 89-100: optimize() ends with an incumbent, proven optimal or not
OptimizeIncumbent ==
    /\ pc = "built"
    /\ \E F \in {FeasibleSet(cfg, distance_matrix)}, obj \in {setObjective(cfg)} :
         /\ F # {}
         /\ \E best \in {SetMin({getValue(obj, v) : v \in F})} :
           \E v \in F, st \in {"OPTIMAL", "TIME_LIMIT"} :
              /\ st = "OPTIMAL" => getValue(obj, v) = best
              /\ model' = Some([Get(model) EXCEPT
                                    !.Status = st, !.SolCount = 1,
                                    !.objVal = Some(getValue(obj, v)), !.X = Some(v)])
    /\ ret' = solve_return(cfg, Get(model'))
    /\ pc' = "returned"
    /\ UNCHANGED <<cfg, matrix_files, distance_matrix, output, solution_file>>

\* model.py 89-102: optimize() proves that no point satisfies the constraints
OptimizeInfeasible ==
    /\ pc = "built"
    /\ FeasibleSet(cfg, distance_matrix) = {}
    /\ model' = Some([Get(model) EXCEPT !.Status = "INFEASIBLE"])
    /\ ret' = solve_return(cfg, Get(model'))
    /\ pc' = "returned"
    /\ UNCHANGED <<cfg, matrix_files, distance_matrix, output, solution_file>>

\* model.py 89-102: the time limit ends optimize() before any incumbent
OptimizeNoIncumbent ==
    /\ pc = "built"
    /\ model' = Some([Get(model) EXCEPT !.Status = "TIME_LIMIT"])
    /\ ret' = solve_return(cfg, Get(model'))
    /\ pc' = "returned"
    /\ UNCHANGED <<cfg, matrix_files, distance_matrix, output, solution_file>>

\* main.py 50-73: extract the values and write the solution file
SaveSolution ==
    /\ pc = "returned"
    /\ ret[1] # None
    /\ Get(ret[1]).SolCount > 0
    /\ solution_file' = Some(solution_data(cfg, Get(ret[1]), Get(ret[2]), Get(ret[3])))
    /\ output' = "Solution data successfully saved"
    /\ pc' = "saved"
    /\ UNCHANGED <<cfg, matrix_files, distance_matrix, model, ret>>

\* the dump placed after the if/else instead of inside the if branch
ReportNoSolution_dump ==
    /\ pc = "returned"
    /\ ~(ret[1] # None /\ Get(ret[1]).SolCount > 0)
    /\ solution_file' = Some(ret)
    /\ output' = "No solution was found. No results to save."
    /\ pc' = "no_solution"
    /\ UNCHANGED <<cfg, matrix_files, distance_matrix, model, ret>>

\* main.py 75-76
ReportNoSolution ==
    /\ pc = "returned"
    /\ ~(ret[1] # None /\ Get(ret[1]).SolCount > 0)
    /\ output' = "No solution was found. No results to save."
    /\ pc' = "no_solution"
    /\ UNCHANGED <<cfg, matrix_files, distance_matrix, model, ret, solution_file>>

Next ==
    \/ LoadMatrices
    \/ GenerateMatrices
    \/ GenerateFails
    \/ BuildModel
    \/ OptimizeIncumbent
    \/ OptimizeInfeasible
    \/ OptimizeNoIncumbent
    \/ SaveSolution
    \/ ReportNoSolution

Spec == Init /\ [][Next]_vars

(***************************************************************************)
(* Properties                                                              *)
(***************************************************************************)
\* the solve has ended with an incumbent
HasIncumbent == pc \in {"returned", "saved"} /\ Get(model).SolCount > 0

\* the values the solver reports for the incumbent
Sol == Get(Get(model).X)

\* C1 - Ineligibility: in every point the solver can return, x[i] = 0 for
\* every ineligible patient i in H, for every partition of P into E and H.
C1_Ineligibility ==
    HasIncumbent => \A i \in cfg.P \ cfg.E : Sol.x[i] = 0

\* an incumbent with an ineligible patient in hospital and an eligible one at home
C1_Witness ==
    /\ HasIncumbent
    /\ cfg.H # {}
    /\ \E i \in cfg.E : Sol.x[i] = 1

\* C2 - Bed capacity: the number of patients with x[i] = 0, over all of P, is
\* at most B; with B = |P| every choice of x satisfies the constraint; with
\* B = 0 every patient has x[i] = 1, so no incumbent exists when H is
\* non-empty.
C2_BedCapacity ==
    /\ HasIncumbent =>
          /\ Cardinality({i \in cfg.P : Sol.x[i] = 0}) <= cfg.B
          /\ cfg.B = 0 => (\A i \in cfg.P : Sol.x[i] = 1) /\ cfg.H = {}
    /\ cfg.B = Cardinality(cfg.P) =>
          \A x \in [cfg.P -> {0, 1}] : bed_capacity(cfg, x)
    /\ (pc = "returned" /\ cfg.B = 0 /\ cfg.H # {}) => Get(model).SolCount = 0

\* an incumbent that fills every bed, one of them with an eligible patient,
\* while another eligible patient is at home
C2_Witness ==
    /\ HasIncumbent
    /\ Cardinality({i \in cfg.P : Sol.x[i] = 0}) = cfg.B
    /\ \E i \in cfg.E : Sol.x[i] = 0
    /\ \E i \in cfg.E : Sol.x[i] = 1

\* the demand table read with default 0
DemandOf(s, i, t) ==
    IF \E k \in DOMAIN cfg.demand : k = <<s, i, t>> THEN cfg.demand[<<s, i, t>>] ELSE 0

\* C3 - Demand exactness: for every bundle s, eligible patient i and day t
\* the deliveries over all depots equal demand(s,i,t) if x[i] = 1 and 0 if
\* x[i] = 0 (absent demand keys count as 0).
C3_DemandExactness ==
    HasIncumbent =>
        \A s \in cfg.S, i \in cfg.E, t \in cfg.T :
            LET delivered == SumSet([j \in cfg.J |-> Sol.z[<<s, i, j, t>>]], cfg.J)
            IN  /\ Sol.x[i] = 1 => delivered = DemandOf(s, i, t)
                /\ Sol.x[i] = 0 => delivered = 0

\* an incumbent in which the demand of a patient at home is supplied from
\* the second of two depots
C3_Witness ==
    /\ HasIncumbent
    /\ \E s \in cfg.S, i \in cfg.E, t \in cfg.T :
          /\ Sol.x[i] = 1
          /\ 1 \in cfg.J
          /\ Sol.z[<<s, i, 1, t>>] = DemandOf(s, i, t)
          /\ DemandOf(s, i, t) > 0

\* deliveries of bundle s from depot j on day t
Delivered(s, j, t) == SumSet([i \in cfg.E |-> Sol.z[<<s, i, j, t>>]], cfg.E)

\* C4 - Inventory conservation: y[s,j,0] = p[s,j,0] - deliveries(0), and
\* y[s,j,t] = y[s,j,t-1] + p[s,j,t] - deliveries(t) for every later day up to
\* the last; stock is never negative, so the deliveries of a depot through
\* day t never exceed its procurement through day t.
C4_InventoryConservation ==
    HasIncumbent =>
        \A s \in cfg.S, j \in cfg.J, t \in cfg.T :
            /\ t = 0 => Sol.y[<<s, j, 0>>] = Sol.p[<<s, j, 0>>] - Delivered(s, j, 0)
            /\ t > 0 => Sol.y[<<s, j, t>>] = Sol.y[<<s, j, t - 1>>]
                                + Sol.p[<<s, j, t>>] - Delivered(s, j, t)
            /\ Sol.y[<<s, j, t>>] >= 0
            /\ SumSet([u \in 0..t |-> Delivered(s, j, u)], 0..t)
                  <= SumSet([u \in 0..t |-> Sol.p[<<s, j, u>>]], 0..t)

\* an incumbent that delivers on the last of two days from stock procured
\* on the first
C4_Witness ==
    /\ HasIncumbent
    /\ \E s \in cfg.S, j \in cfg.J :
          /\ 1 \in cfg.T
          /\ Sol.y[<<s, j, 0>>] > 0
          /\ Sol.p[<<s, j, 1>>] = 0
          /\ Delivered(s, j, 1) > 0

\* C5 as stated - Zero-count routing in every point the solver can return:
\* n_jt[j,t] = 0 implies vrp_jt[j,t] = 0.
C5_ZeroCountRoutingFeasible ==
    HasIncumbent =>
        \A k \in jt_keys(cfg) : Sol.n_jt[k] = 0 => Sol.vrp_jt[k] = 0

\* C5 - Zero-count routing, amended: in every incumbent, n_jt[j,t] = 0 makes
\* the square-root term 0 and leaves vrp_jt[j,t] equal to the spoke term
\* num_vehicles * 2 * avg_dist, which no constraint binds; in every incumbent
\* that minimises the objective, n_jt[j,t] = 0 implies vrp_jt[j,t] = 0.
C5_ZeroCountRoutingOptimal ==
    HasIncumbent =>
        \A k \in jt_keys(cfg) :
            Sol.n_jt[k] = 0 =>
                /\ Sol.sqrt_n[k] = 0
                /\ Sol.vrp_jt[k] * DistScale
                      = Sol.num_vehicles[k] * 2 * Sol.avg_dist[k] * VrpScale
                /\ Get(model).Status = "OPTIMAL" => Sol.vrp_jt[k] = 0

\* an optimal incumbent with a patient at home and a depot-day that serves
\* nobody
C5_Witness ==
    /\ HasIncumbent
    /\ Get(model).Status = "OPTIMAL"
    /\ \E i \in cfg.E : Sol.x[i] = 1
    /\ \E k \in jt_keys(cfg) : Sol.n_jt[k] = 0 /\ Sol.vrp_jt[k] = 0
    /\ \E k \in jt_keys(cfg) : Sol.n_jt[k] > 0

\* the point v satisfies every constraint of the program of c
Satisfies(c, dm, v) ==
    /\ ineligibility(c, v.x)
    /\ bed_capacity(c, v.x)
    /\ demand_fulfillment(c, v.x, v.z)
    /\ inventory_balance(c, v.y, v.p, v.z)
    /\ link_z_a(c, v.z, v.a)
    /\ count_deliveries(c, v.n_jt, v.a)
    /\ \A k \in jt_keys(c) :
          /\ calc_vehicles(v.num_vehicles[k], v.n_jt[k])
          /\ avg_dist_calc(c, dm, v.avg_dist[k], v.n_jt[k], v.a, k[1], k[2])
          /\ pow_sqrt_n(v.n_jt[k], v.sqrt_n[k])
          /\ vrp_cost_def(v.vrp_jt[k], v.num_vehicles[k], v.avg_dist[k], v.sqrt_n[k])

\* the least objective value over a non-empty set of points
MinCost(F, obj) == SetMin({getValue(obj, v) : v \in F})

\* C6 - Monotonicity in bed capacity: for a parameter set and any larger bed
\* capacity B2 with all else equal, every point feasible for B is feasible
\* for B2 and the minimum total cost for B2 is no greater than that for B.
C6_Monotonicity ==
    pc = "built" =>
        \A F1 \in {FeasibleSet(cfg, distance_matrix)}, obj \in {setObjective(cfg)} :
            \A B2 \in cfg.B..(cfg.num_P + 1) :
                \A c2 \in {[cfg EXCEPT !.B = B2]} :
                    /\ \A v \in F1 : Satisfies(c2, distance_matrix, v)
                    /\ F1 # {} =>
                          MinCost(FeasibleSet(c2, distance_matrix), obj)
                              <= MinCost(F1, obj)

\* a parameter set whose minimum cost falls when one bed is added
C6_Witness ==
    /\ pc = "built"
    /\ cfg.B < cfg.num_P
    /\ \E F1 \in {FeasibleSet(cfg, distance_matrix)}, obj \in {setObjective(cfg)} :
          /\ F1 # {}
          /\ MinCost(FeasibleSet([cfg EXCEPT !.B = cfg.B + 1], distance_matrix), obj)
                < MinCost(F1, obj)

\* C7 as stated - Infeasibility is its own outcome: what the caller receives
\* after a proof of infeasibility differs from what it receives when the time
\* limit is reached without an incumbent.
C7_InfeasibleDistinct ==
    (pc \in {"returned", "no_solution"} /\ Get(model).Status = "INFEASIBLE") =>
        ret # solve_return(cfg, [Get(model) EXCEPT !.Status = "TIME_LIMIT"])

\* the sum of the values of a mapping
SumValues(f) == SumSet(f, DOMAIN f)

\* C8 - Cost breakdown adds up: the objective value of every returned
\* solution equals the sum of the five categories, each category has the
\* value of its formula, and the saved total equals the saved categories.
C8_CostBreakdown ==
    HasIncumbent =>
        LET cb == Get(ret[3]) IN
        /\ Get(Get(model).objVal) = SumValues(cb)
        /\ cb["In-Hospital"]
              = SumSet([i \in cfg.P |->
                    c_Hosp * cfg.L_hosp[i] * (1 - Sol.x[i]) * MoneyScale], cfg.P)
        /\ cb["Nurse Visits"]
              = SumSet([i \in cfg.E |->
                    c_N * cfg.L_home[i] * Sol.x[i] * MoneyScale], cfg.E)
        /\ cb["Procurement"]
              = SumSet([k \in p_keys(cfg) |-> c_P(k[1]) * Sol.p[k] * MoneyScale],
                       p_keys(cfg))
        /\ cb["Inventory"]
              = SumSet([k \in y_keys(cfg) |-> c_V * Sol.y[k] * MoneyScale], y_keys(cfg))
        /\ cb["Transport"]
              = SumSet([k \in jt_keys(cfg) |-> c_D * Sol.vrp_jt[k]], jt_keys(cfg))
        /\ pc = "saved" =>
              Get(solution_file).total_cost = SumValues(Get(solution_file).cost_components)

\* the saved solution of the literal scenario: patient 0 in hospital, the
\* patients 1 and 2 at home, and stock left at the depot
C8_Witness ==
    /\ pc = "saved"
    /\ cfg = LiteralScenario
    /\ Sol.x = [i \in 0..2 |-> IF i = 0 THEN 0 ELSE 1]
    /\ Get(solution_file).cost_components["Inventory"] > 0
    /\ Get(solution_file).cost_components["Transport"] > 0

\* C9 as stated - Negative distances are never used: no entry of the
\* distance matrix that enters the avg_dist_calc constraints is negative.
C9_NoNegativeDistanceUsed ==
    pc \in {"built", "returned", "saved", "no_solution"} =>
        \A k \in a_keys(cfg) : Get(model).avg_dist_coef[k] >= 0

\* the variable group of the solver that a group of the record names
GroupKeys(g) ==
    CASE g = "x" -> x_keys(cfg)
      [] g \in {"y", "p"} -> cfg.S \X cfg.J \X cfg.T
      [] g = "z" -> cfg.S \X cfg.E \X cfg.J \X cfg.T
      [] g = "a" -> cfg.E \X cfg.J \X cfg.T
      [] g \in {"n_jt", "vrp_jt"} -> cfg.J \X cfg.T

\* the groups of g are in the saved record, each with exactly its keys and
\* the solver's values
GroupsSaved(groups) ==
    LET saved == Get(solution_file).variables IN
    /\ DOMAIN saved = groups
    /\ \A g \in groups :
          /\ DOMAIN saved[g] = GroupKeys(g)
          /\ \A k \in GroupKeys(g) : saved[g][k] = Sol[g][k]

DeliveredTo(i, j, t) == quicksum([s \in cfg.S |-> Sol.z[<<s, i, j, t>>]])

\* C11 as stated - Served indicator and delivery count: in every incumbent,
\* a[i,j,t] = 1 exactly when patient i receives a positive delivery from
\* depot j on day t, and n_jt[j,t] is the number of distinct patients that
\* receive a positive delivery from j on day t, so that a patient with
\* x[i] = 0 is never counted.
C11_ServedMeansDelivered ==
    HasIncumbent =>
        /\ \A k \in a_keys(cfg) :
              Sol.a[k] = 1 <=> DeliveredTo(k[1], k[2], k[3]) > 0
        /\ \A k \in jt_keys(cfg) :
              Sol.n_jt[k]
                 = Cardinality({i \in cfg.E : DeliveredTo(i, k[1], k[2]) > 0})
        /\ \A k \in a_keys(cfg) : Sol.x[k[1]] = 0 => Sol.a[k] = 0

\* the smallest non-negative integer v with v * gamma >= n
CeilingVehicles(n) == CeilDiv(n, gamma)

\* C12 as stated - Vehicle count is the ceiling: in every incumbent, for
\* every depot j and day t, num_vehicles equals ceil(n_jt[j,t] / gamma) and
\* is never larger.
C12_VehicleCountIsCeiling ==
    HasIncumbent =>
        \A k \in jt_keys(cfg) :
            Sol.num_vehicles[k] = CeilingVehicles(Sol.n_jt[k])

\* C12 - amended: in every incumbent num_vehicles is a non-negative integer
\* with num_vehicles * gamma >= n_jt[j,t], so it is never below the ceiling;
\* it equals the ceiling in a solution that minimises the objective and in
\* which the average distance of the depot and day is positive.
C12_VehicleCountAtLeastCeiling ==
    HasIncumbent =>
        \A k \in jt_keys(cfg) :
            /\ Sol.num_vehicles[k] >= 0
            /\ Sol.num_vehicles[k] * gamma >= Sol.n_jt[k]
            /\ Sol.num_vehicles[k] >= CeilingVehicles(Sol.n_jt[k])
            /\ (Get(model).Status = "OPTIMAL" /\ Sol.avg_dist[k] > 0) =>
                  Sol.num_vehicles[k] = CeilingVehicles(Sol.n_jt[k])

\* a minimising solution that serves a patient from a depot with one vehicle
\* over a positive average distance
C12_Witness ==
    /\ HasIncumbent
    /\ Get(model).Status = "OPTIMAL"
    /\ \E k \in jt_keys(cfg) :
          /\ Sol.n_jt[k] > 0
          /\ Sol.avg_dist[k] > 0
          /\ Sol.num_vehicles[k] = 1

\* the saved record holds what the solve reported: the objective value, the
\* values of the variables returned, and the cost breakdown returned
ExtractedFromSolve ==
    LET data == Get(solution_file) IN
    /\ ret[1] = model
    /\ data.total_cost = Get(Get(model).objVal)
    /\ \A g \in DOMAIN data.variables :
          \A k \in DOMAIN data.variables[g] : data.variables[g][k] = Sol[g][k]
    /\ data.cost_components = Get(ret[3])

\* C13 - Ordering of the run in main: a solution file exists only once the
\* run has saved, after a solve with SolCount > 0, and holds what that solve
\* reported; after a solve without incumbent (infeasible or time limit)
\* nothing is returned, extracted or written; when the provider returns None
\* the run stops with no model built; the file is written only from a
\* returned solve with an incumbent, and the model is built and solved only
\* once the matrices are prepared.
C13_RunOrdering ==
    /\ [](solution_file # None =>
            /\ pc = "saved"
            /\ Get(model).SolCount > 0
            /\ ExtractedFromSolve)
    /\ [](pc = "no_solution" =>
            /\ Get(model).SolCount = 0
            /\ ret = <<None, None, None>>
            /\ solution_file = None)
    /\ [](pc = "exited" => model = None /\ solution_file = None)
    /\ [][/\ solution_file' # solution_file =>
                pc = "returned" /\ Get(model).SolCount > 0
          /\ model' # model => pc \in {"prepared", "built"}
          /\ pc' = "built" => pc = "prepared"
          /\ pc = "exited" => pc' = "exited"]_vars

\* a run whose solve ended at the time limit with an incumbent of positive
\* cost, and which saved it
C13_Witness ==
    /\ pc = "saved"
    /\ solution_file # None
    /\ Get(model).Status = "TIME_LIMIT"
    /\ Get(solution_file).total_cost > 0

====
